---------------------------- MODULE Spec2Model ----------------------------
(***************************************************************************)
(* The per-channel memory controller of DRAMsim3 (src/src/controller.cc): *)
(* transaction admission, the transaction buffers and pending maps, the   *)
(* scheduler, the issue side effects and the completion drain.            *)
(*                                                                         *)
(* The handlers are written as operators from a controller state (a       *)
(* record s with one field per member of Controller) to the state after   *)
(* the call, so that ClockTick can compose them in the order of the code. *)
(* The collaborators that are not part of controller.cc (CommandQueue,    *)
(* BufferOnBoard, Config::AddressMapping) appear only through what the     *)
(* controller reads from them; their answers are inputs of the actions.   *)
(***************************************************************************)
EXTENDS Integers, Sequences, FiniteSets, TLC

(***************************************************************************)
(* Bounds of the model.                                                    *)
(***************************************************************************)
MaxAddr == 1
MaxTrans == 3
MaxClk == 4
LiveWindow == 2
DrainExtra == 2
DrainClk == 5
SrefTrans == 1
SrefClk == 4

(***************************************************************************)
(* Configuration values read by the controller (Config is not part of     *)
(* controller.cc; the values are small so that every case is reached).    *)
(***************************************************************************)
trans_queue_size == 2
cmd_queue_size == 2
read_delay == 1
tPDM_RD == 1
tRPRE == 1
NumBanks == 2
WriteDrainLow == 8
DrainQueueSize == 10
NumRanks == 2
sref_threshold == 2

Addrs == 0..MaxAddr
MRSAddr == 0
EmptyPayload == 0
DramData == MaxTrans + 1
Banks == 0..(NumBanks - 1)
Ranks == 0..(NumRanks - 1)
Ids == 1..MaxTrans

VARIABLES
    config,          \* config_: unified_queue, is_LRDIMM, row_buf_policy
    enable_self_refresh, \* config_.enable_self_refresh
    clk,             \* clk_
    unified_queue,   \* unified_queue_
    read_queue,      \* read_queue_
    write_buffer,    \* write_buffer_
    mrs_buffer,      \* mrs_buffer_
    capacity,        \* capacity() of the four vectors
    pending_rd_q,    \* pending_rd_q_ (multimap addr -> Transaction)
    pending_wr_q,    \* pending_wr_q_ (map addr -> Transaction)
    return_queue,    \* return_queue_
    resp_data,       \* resp_data_ (GetRespData, the requester's pop, is not modelled)
    write_draining,  \* write_draining_
    cmd_queue,       \* the commands AddCommand put into cmd_queue_, not yet issued
    bob_rd,          \* BufferOnBoard_: READs recorded whose response is not yet delivered
    fatal,           \* TRUE once exit(1) was called
    rank_idle_cycles,    \* channel_state_.rank_idle_cycles
    self_refreshing,     \* the ranks for which IsRankSelfRefreshing holds
    next_id,         \* history: number of the next admitted transaction
    admitted,        \* history: the transactions as admitted, by id
    done,            \* history: completions returned per id
    mrs_log,         \* history: ids of the MRS commands in AddCommand order
    wr_log,          \* history: the WRITE commands issued, with the pending payload
    accepted,        \* history: WillAcceptTransaction's last answer per class this cycle
    checked          \* history: every admission so far was accepted just before it

ctrl_vars == <<clk, unified_queue, read_queue, write_buffer, mrs_buffer, capacity,
               pending_rd_q, pending_wr_q, return_queue, resp_data, write_draining,
               cmd_queue, bob_rd, fatal, rank_idle_cycles, self_refreshing,
               mrs_log, wr_log>>

vars == <<config, enable_self_refresh, clk, unified_queue, read_queue, write_buffer,
          mrs_buffer, capacity, pending_rd_q, pending_wr_q, return_queue, resp_data,
          write_draining, cmd_queue, bob_rd, fatal, rank_idle_cycles, self_refreshing,
          next_id, admitted, done, mrs_log, wr_log, accepted, checked>>

(***************************************************************************)
(* The controller state as one record, and its assignment.                *)
(***************************************************************************)
State ==
    [clk |-> clk, unified_queue |-> unified_queue, read_queue |-> read_queue,
     write_buffer |-> write_buffer, mrs_buffer |-> mrs_buffer, capacity |-> capacity,
     pending_rd_q |-> pending_rd_q, pending_wr_q |-> pending_wr_q,
     return_queue |-> return_queue, resp_data |-> resp_data,
     write_draining |-> write_draining, cmd_queue |-> cmd_queue, bob_rd |-> bob_rd,
     fatal |-> fatal, rank_idle_cycles |-> rank_idle_cycles,
     self_refreshing |-> self_refreshing, mrs_log |-> mrs_log, wr_log |-> wr_log]

Becomes(s) ==
    /\ clk' = s.clk
    /\ unified_queue' = s.unified_queue
    /\ read_queue' = s.read_queue
    /\ write_buffer' = s.write_buffer
    /\ mrs_buffer' = s.mrs_buffer
    /\ capacity' = s.capacity
    /\ pending_rd_q' = s.pending_rd_q
    /\ pending_wr_q' = s.pending_wr_q
    /\ return_queue' = s.return_queue
    /\ resp_data' = s.resp_data
    /\ write_draining' = s.write_draining
    /\ cmd_queue' = s.cmd_queue
    /\ bob_rd' = s.bob_rd
    /\ fatal' = s.fatal
    /\ rank_idle_cycles' = s.rank_idle_cycles
    /\ self_refreshing' = s.self_refreshing
    /\ mrs_log' = s.mrs_log
    /\ wr_log' = s.wr_log

(***************************************************************************)
(* Sequence helpers: std::vector::erase, and the least of a set.          *)
(***************************************************************************)
RemoveAt(q, i) == [j \in 1..(Len(q) - 1) |-> IF j < i THEN q[j] ELSE q[j + 1]]

Min(S) == CHOOSE x \in S : \A y \in S : x <= y

(***************************************************************************)
(* Controller::Controller.  reserve(n) on an empty vector gives it the    *)
(* capacity n; a vector that is never reserved has capacity 0.            *)
(***************************************************************************)
\* The configurations explored: both queue modes, with and without the on-DIMM
\* buffer, with and without dual command issue (an HBM feature, never together
\* with the DDR on-DIMM buffer); the row-buffer policy, which only names the
\* command, alternates so that each value meets each value of the other three.
Configs ==
    {c \in [unified_queue : BOOLEAN, is_LRDIMM : BOOLEAN,
            enable_hbm_dual_cmd : BOOLEAN,
            row_buf_policy : {"OPEN_PAGE", "CLOSE_PAGE"}] :
        /\ ~(c.is_LRDIMM /\ c.enable_hbm_dual_cmd)
        /\ (c.row_buf_policy = "CLOSE_PAGE")
             = (c.unified_queue = (c.is_LRDIMM \/ c.enable_hbm_dual_cmd))}

InitCapacity(cfg) ==
    [unified |-> IF cfg.unified_queue THEN trans_queue_size ELSE 0,
     read    |-> IF cfg.unified_queue THEN 0 ELSE trans_queue_size,
     write   |-> IF cfg.unified_queue THEN 0 ELSE trans_queue_size,
     mrs     |-> trans_queue_size]

InitCtrl(cfgs, acc) ==
    /\ config \in cfgs
    /\ clk = 0
    /\ unified_queue = <<>>
    /\ read_queue = <<>>
    /\ write_buffer = <<>>
    /\ mrs_buffer = <<>>
    /\ capacity = InitCapacity(config)
    /\ pending_rd_q = [a \in Addrs |-> <<>>]
    /\ pending_wr_q = [a \in Addrs |-> <<>>]
    /\ return_queue = <<>>
    /\ resp_data = <<>>
    /\ write_draining = 0
    /\ cmd_queue = <<>>
    /\ bob_rd = <<>>
    /\ fatal = FALSE
    /\ rank_idle_cycles = [r \in Ranks |-> 0]
    /\ self_refreshing = {}
    /\ next_id = 1
    /\ admitted = <<>>
    /\ done = [i \in Ids |-> 0]
    /\ mrs_log = <<>>
    /\ wr_log = <<>>
    /\ accepted = acc
    /\ checked = TRUE

\* Self-refresh is off unless a specification turns it on.
InitWith(cfgs, acc) ==
    /\ InitCtrl(cfgs, acc)
    /\ enable_self_refresh = FALSE

Classes == {"read", "write", "mrs"}

Class(is_write, is_MRS) == IF is_MRS THEN "mrs" ELSE IF is_write THEN "write" ELSE "read"

NotAsked == [c \in Classes |-> "none"]

Init == InitWith(Configs, NotAsked)

(***************************************************************************)
(* Controller::WillAcceptTransaction(hex_addr, is_write, is_MRS).         *)
(***************************************************************************)
\* Faulty variant: the two-argument overload, which does not look at is_MRS.
WillAcceptTransaction_Overload(s, hex_addr, is_write, is_MRS) ==
    IF config.unified_queue THEN Len(s.unified_queue) < s.capacity.unified
    ELSE IF ~is_write THEN Len(s.read_queue) < s.capacity.read
    ELSE Len(s.write_buffer) < s.capacity.write

\* Faulty variant: accepts into a buffer that is exactly full.
WillAcceptTransaction_Inclusive(s, hex_addr, is_write, is_MRS) ==
    IF is_MRS THEN Len(s.mrs_buffer) <= s.capacity.mrs
    ELSE IF config.unified_queue THEN Len(s.unified_queue) <= s.capacity.unified
    ELSE IF ~is_write THEN Len(s.read_queue) <= s.capacity.read
    ELSE Len(s.write_buffer) <= s.capacity.write

WillAcceptTransaction(s, hex_addr, is_write, is_MRS) ==
    IF is_MRS THEN Len(s.mrs_buffer) < s.capacity.mrs
    ELSE IF config.unified_queue THEN Len(s.unified_queue) < s.capacity.unified
    ELSE IF ~is_write THEN Len(s.read_queue) < s.capacity.read
    ELSE Len(s.write_buffer) < s.capacity.write

(***************************************************************************)
(* std::vector::push_back: a full vector reallocates, and its capacity    *)
(* grows (libstdc++ and libc++ double it).                                *)
(***************************************************************************)
GrowCapacity(cap, len) == IF len < cap THEN cap ELSE IF cap = 0 THEN 1 ELSE 2 * cap

Count(map, addr) == Len(map[addr])

(***************************************************************************)
(* Controller::AddTransaction.  trans is the caller's transaction; the    *)
(* copies put into the buffers and the pending maps keep the              *)
(* complete_cycle the caller gave, the copy put into return_queue_ has    *)
(* clk_ + 1.                                                               *)
(***************************************************************************)
AddMRS(s, trans) ==
    [s EXCEPT !.mrs_buffer = Append(@, trans),
              !.capacity.mrs = GrowCapacity(@, Len(s.mrs_buffer)),
              !.return_queue = Append(@, [trans EXCEPT !.complete_cycle = s.clk + 1])]

\* Faulty variant: a merged write leaves the pending payload as it was.
AddWrite_KeepsFirstPayload(s, trans) ==
    LET s1 == IF Count(s.pending_wr_q, trans.addr) = 0
              THEN IF config.unified_queue
                   THEN [s EXCEPT !.pending_wr_q[trans.addr] = <<trans>>,
                                  !.unified_queue = Append(@, trans),
                                  !.capacity.unified =
                                      GrowCapacity(@, Len(s.unified_queue))]
                   ELSE [s EXCEPT !.pending_wr_q[trans.addr] = <<trans>>,
                                  !.write_buffer = Append(@, trans),
                                  !.capacity.write =
                                      GrowCapacity(@, Len(s.write_buffer))]
              ELSE s
    IN  [s1 EXCEPT !.return_queue =
                       Append(@, [trans EXCEPT !.complete_cycle = s.clk + 1])]

AddWrite(s, trans) ==
    LET s1 == IF Count(s.pending_wr_q, trans.addr) = 0
              THEN IF config.unified_queue
                   THEN [s EXCEPT !.pending_wr_q[trans.addr] = <<trans>>,
                                  !.unified_queue = Append(@, trans),
                                  !.capacity.unified =
                                      GrowCapacity(@, Len(s.unified_queue))]
                   ELSE [s EXCEPT !.pending_wr_q[trans.addr] = <<trans>>,
                                  !.write_buffer = Append(@, trans),
                                  !.capacity.write =
                                      GrowCapacity(@, Len(s.write_buffer))]
              ELSE [s EXCEPT !.pending_wr_q[trans.addr][1].payload = trans.payload]
    IN  [s1 EXCEPT !.return_queue =
                       Append(@, [trans EXCEPT !.complete_cycle = s.clk + 1])]

\* Faulty variant: a read is never answered from a pending write.
AddRead_NeverForwards(s, trans) ==
    LET s1 == [s EXCEPT !.pending_rd_q[trans.addr] = Append(@, trans)]
    IN  IF Count(s1.pending_rd_q, trans.addr) = 1
        THEN IF config.unified_queue
             THEN [s1 EXCEPT !.unified_queue = Append(@, trans),
                             !.capacity.unified = GrowCapacity(@, Len(s.unified_queue))]
             ELSE [s1 EXCEPT !.read_queue = Append(@, trans),
                             !.capacity.read = GrowCapacity(@, Len(s.read_queue))]
        ELSE s1

\* Faulty variant: every read that is not forwarded is queued, coalesced or not.
AddRead_QueuesEvery(s, trans) ==
    IF Count(s.pending_wr_q, trans.addr) > 0
    THEN LET pending_wr == s.pending_wr_q[trans.addr][1]
         IN  [s EXCEPT !.return_queue =
                  Append(@, [trans EXCEPT !.complete_cycle = s.clk + 1,
                                          !.payload = pending_wr.payload])]
    ELSE LET s1 == [s EXCEPT !.pending_rd_q[trans.addr] = Append(@, trans)]
         IN  IF config.unified_queue
             THEN [s1 EXCEPT !.unified_queue = Append(@, trans),
                             !.capacity.unified = GrowCapacity(@, Len(s.unified_queue))]
             ELSE [s1 EXCEPT !.read_queue = Append(@, trans),
                             !.capacity.read = GrowCapacity(@, Len(s.read_queue))]

AddRead(s, trans) ==
    IF Count(s.pending_wr_q, trans.addr) > 0
    THEN LET pending_wr == s.pending_wr_q[trans.addr][1]
         IN  [s EXCEPT !.return_queue =
                  Append(@, [trans EXCEPT !.complete_cycle = s.clk + 1,
                                          !.payload = pending_wr.payload])]
    ELSE LET s1 == [s EXCEPT !.pending_rd_q[trans.addr] = Append(@, trans)]
         IN  IF Count(s1.pending_rd_q, trans.addr) = 1
             THEN IF config.unified_queue
                  THEN [s1 EXCEPT !.unified_queue = Append(@, trans),
                                  !.capacity.unified =
                                      GrowCapacity(@, Len(s.unified_queue))]
                  ELSE [s1 EXCEPT !.read_queue = Append(@, trans),
                                  !.capacity.read =
                                      GrowCapacity(@, Len(s.read_queue))]
             ELSE s1

AddTransaction(s, t) ==
    LET trans == [t EXCEPT !.added_cycle = s.clk]
    IN  IF trans.is_MRS THEN AddMRS(s, trans)
        ELSE IF trans.is_write THEN AddWrite(s, trans)
        ELSE AddRead(s, trans)

(***************************************************************************)
(* Controller::TransToCommand.  A command keeps the flat address and, as  *)
(* history, the id of the transaction it was made from.                   *)
(***************************************************************************)
AddressMapping(hex_addr) == hex_addr % NumBanks

TransToCommand(trans) ==
    LET rw == IF config.row_buf_policy = "OPEN_PAGE"
              THEN IF trans.is_write THEN "WRITE" ELSE "READ"
              ELSE IF trans.is_write THEN "WRITE_PRECHARGE" ELSE "READ_PRECHARGE"
    IN  [cmd_type |-> IF trans.is_MRS THEN "MRS" ELSE rw,
         hex_addr |-> trans.addr,
         bank     |-> AddressMapping(trans.addr),
         id       |-> trans.id]

IsRead(cmd) == cmd.cmd_type \in {"READ", "READ_PRECHARGE"}
IsWrite(cmd) == cmd.cmd_type \in {"WRITE", "WRITE_PRECHARGE"}
IsMRSCMD(cmd) == cmd.cmd_type = "MRS"
IsReadWrite(cmd) == IsRead(cmd) \/ IsWrite(cmd)

(***************************************************************************)
(* Controller::ScheduleTransaction.  accept is the set of banks for which *)
(* cmd_queue_.WillAcceptCommand answers true in this call, accept_mrs the *)
(* answer of cmd_queue_.WillAcceptMRSCommand.                             *)
(***************************************************************************)
\* Faulty variant: the lower threshold does not look at the command queue.
EnterDrain_IgnoresCmdQueue(s) ==
    IF s.write_draining = 0 /\ ~config.unified_queue
       /\ (Len(s.write_buffer) >= s.capacity.write
           \/ Len(s.write_buffer) > WriteDrainLow)
    THEN Len(s.write_buffer)
    ELSE s.write_draining

\* Faulty variant: the drain counts the room of write_buffer, not its writes.
EnterDrain_Capacity(s) ==
    IF s.write_draining = 0 /\ ~config.unified_queue
       /\ (Len(s.write_buffer) >= s.capacity.write
           \/ (Len(s.write_buffer) > WriteDrainLow /\ s.cmd_queue = <<>>))
    THEN s.capacity.write
    ELSE s.write_draining

EnterDrain(s) ==
    IF s.write_draining = 0 /\ ~config.unified_queue
       /\ (Len(s.write_buffer) >= s.capacity.write
           \/ (Len(s.write_buffer) > WriteDrainLow /\ s.cmd_queue = <<>>))
    THEN Len(s.write_buffer)
    ELSE s.write_draining

\* Faulty variant: mrs_buffer is served only when nothing else waits.
SelectQueue_MRSLast(s) ==
    IF config.unified_queue /\ Len(s.unified_queue) > 0 THEN "unified"
    ELSE IF ~config.unified_queue /\ s.write_draining > 0 THEN "write"
    ELSE IF ~config.unified_queue /\ Len(s.read_queue) > 0 THEN "read"
    ELSE IF Len(s.mrs_buffer) > 0 THEN "mrs"
    ELSE IF config.unified_queue THEN "unified"
    ELSE "read"

SelectQueue(s) ==
    IF Len(s.mrs_buffer) > 0 THEN "mrs"
    ELSE IF config.unified_queue THEN "unified"
    ELSE IF s.write_draining > 0 THEN "write"
    ELSE "read"

QueueOf(s, name) ==
    CASE name = "mrs" -> s.mrs_buffer
      [] name = "unified" -> s.unified_queue
      [] name = "write" -> s.write_buffer
      [] name = "read" -> s.read_queue

Erase(s, name, i) ==
    CASE name = "mrs" -> [s EXCEPT !.mrs_buffer = RemoveAt(@, i)]
      [] name = "unified" -> [s EXCEPT !.unified_queue = RemoveAt(@, i)]
      [] name = "write" -> [s EXCEPT !.write_buffer = RemoveAt(@, i)]
      [] name = "read" -> [s EXCEPT !.read_queue = RemoveAt(@, i)]

AddCommand(s, cmd) ==
    [s EXCEPT !.cmd_queue = Append(@, cmd),
              !.mrs_log = IF IsMRSCMD(cmd) THEN Append(@, cmd.id) ELSE @]

\* Faulty variant: promotes the newest MRS instead of the oldest.
ScheduleMRS_Newest(s, accept_mrs) ==
    IF accept_mrs
    THEN Erase(AddCommand(s, TransToCommand(s.mrs_buffer[Len(s.mrs_buffer)])),
               "mrs", Len(s.mrs_buffer))
    ELSE s

ScheduleMRS(s, accept_mrs) ==
    IF accept_mrs
    THEN Erase(AddCommand(s, TransToCommand(s.mrs_buffer[1])), "mrs", 1)
    ELSE s

\* Faulty variant: the R->W dependency is never enforced.
RWDependency_Unchecked(s, trans) == FALSE

RWDependency(s, trans) == Count(s.pending_rd_q, trans.addr) > 0

\* Faulty variant: a write blocked by a pending read leaves the drain running.
ScheduleNormal_KeepsDraining(s, name, accept) ==
    LET queue == QueueOf(s, name)
        cand == {i \in 1..Len(queue) : AddressMapping(queue[i].addr) \in accept}
    IN  IF cand = {} THEN s
        ELSE LET i == Min(cand)
                 cmd == TransToCommand(queue[i])
             IN  IF ~config.unified_queue /\ IsWrite(cmd)
                 THEN IF RWDependency(s, queue[i])
                      THEN s
                      ELSE Erase(AddCommand([s EXCEPT !.write_draining = @ - 1], cmd),
                                 name, i)
                 ELSE Erase(AddCommand(s, cmd), name, i)

ScheduleNormal(s, name, accept) ==
    LET queue == QueueOf(s, name)
        cand == {i \in 1..Len(queue) : AddressMapping(queue[i].addr) \in accept}
    IN  IF cand = {} THEN s
        ELSE LET i == Min(cand)
                 cmd == TransToCommand(queue[i])
             IN  IF ~config.unified_queue /\ IsWrite(cmd)
                 THEN IF RWDependency(s, queue[i])
                      THEN [s EXCEPT !.write_draining = 0]
                      ELSE Erase(AddCommand([s EXCEPT !.write_draining = @ - 1], cmd),
                                 name, i)
                 ELSE Erase(AddCommand(s, cmd), name, i)

ScheduleTransaction(s, accept, accept_mrs) ==
    LET s1 == [s EXCEPT !.write_draining = EnterDrain(s)]
        name == SelectQueue(s1)
    IN  IF name = "mrs" THEN ScheduleMRS(s1, accept_mrs)
        ELSE ScheduleNormal(s1, name, accept)

(***************************************************************************)
(* Controller::IssueCommand.  The pending reads of the address move to    *)
(* return_queue_ in the order std::multimap::find meets them (the order   *)
(* of insertion).  wr_log records the payload of the pending write the    *)
(* WRITE retires (the one handed to BufferOnBoard_.enqueWRData).          *)
(***************************************************************************)
ReadCompleteCycle(s) ==
    s.clk + read_delay + (IF config.is_LRDIMM THEN tPDM_RD + tRPRE ELSE 0)

\* Faulty variant: each coalesced read completes relative to its own admission.
IssueRead_PerEntryCycle(s, cmd) ==
    IF Count(s.pending_rd_q, cmd.hex_addr) = 0
    THEN [s EXCEPT !.fatal = TRUE]
    ELSE LET reads == s.pending_rd_q[cmd.hex_addr]
             moved == [k \in 1..Len(reads) |->
                          [reads[k] EXCEPT !.complete_cycle =
                               reads[k].added_cycle + 1 + ReadCompleteCycle(s) - s.clk]]
         IN  [s EXCEPT !.return_queue = @ \o moved,
                       !.pending_rd_q[cmd.hex_addr] = <<>>]

\* Faulty variant: only the oldest pending read of the address is moved.
IssueRead_FirstOnly(s, cmd) ==
    IF Count(s.pending_rd_q, cmd.hex_addr) = 0
    THEN [s EXCEPT !.fatal = TRUE]
    ELSE LET reads == s.pending_rd_q[cmd.hex_addr]
         IN  [s EXCEPT !.return_queue =
                           Append(@, [reads[1] EXCEPT !.complete_cycle = ReadCompleteCycle(s)]),
                       !.pending_rd_q[cmd.hex_addr] = Tail(reads)]

IssueRead(s, cmd) ==
    IF Count(s.pending_rd_q, cmd.hex_addr) = 0
    THEN [s EXCEPT !.fatal = TRUE]
    ELSE LET reads == s.pending_rd_q[cmd.hex_addr]
             moved == [k \in 1..Len(reads) |->
                          [reads[k] EXCEPT !.complete_cycle = ReadCompleteCycle(s)]]
         IN  [s EXCEPT !.return_queue = @ \o moved,
                       !.pending_rd_q[cmd.hex_addr] = <<>>]

\* Faulty variant: the issued WRITE is acknowledged a second time.
IssueWrite_Acknowledges(s, cmd) ==
    IF Count(s.pending_wr_q, cmd.hex_addr) = 0
    THEN [s EXCEPT !.fatal = TRUE]
    ELSE LET it == s.pending_wr_q[cmd.hex_addr][1]
         IN  [s EXCEPT !.wr_log = Append(@, [id |-> cmd.id, addr |-> cmd.hex_addr,
                                             payload |-> it.payload]),
                       !.return_queue =
                           Append(@, [it EXCEPT !.complete_cycle = s.clk + 1]),
                       !.pending_wr_q[cmd.hex_addr] = <<>>]

IssueWrite(s, cmd) ==
    IF Count(s.pending_wr_q, cmd.hex_addr) = 0
    THEN [s EXCEPT !.fatal = TRUE]
    ELSE LET it == s.pending_wr_q[cmd.hex_addr][1]
         IN  [s EXCEPT !.wr_log = Append(@, [id |-> cmd.id, addr |-> cmd.hex_addr,
                                             payload |-> it.payload]),
                       !.pending_wr_q[cmd.hex_addr] = <<>>]

\* channel_state_.UpdateTimingAndStates: of the channel state only the ranks in
\* self-refresh are kept; SREF_ENTER puts a rank into self-refresh and
\* SREF_EXIT takes it out.
UpdateTimingAndStates(s, cmd) ==
    IF cmd.cmd_type = "SREF_ENTER"
    THEN [s EXCEPT !.self_refreshing = @ \cup {cmd.rank}]
    ELSE IF cmd.cmd_type = "SREF_EXIT"
    THEN [s EXCEPT !.self_refreshing = @ \ {cmd.rank}]
    ELSE s

IssueCommand(s, cmd) ==
    UpdateTimingAndStates(IF IsRead(cmd) THEN IssueRead(s, cmd)
                          ELSE IF IsWrite(cmd) THEN IssueWrite(s, cmd)
                          ELSE s,
                          cmd)

(***************************************************************************)
(* Controller::ReturnDoneTrans(clk): the first entry of return_queue_     *)
(* whose complete_cycle the clock has reached, 0 when there is none (the  *)
(* call then returns (-1, -1) and changes nothing).                       *)
(***************************************************************************)
\* Faulty variant: the newest ready entry instead of the oldest.
FirstDone_Newest(s, c) ==
    LET ready == {i \in 1..Len(s.return_queue) : c >= s.return_queue[i].complete_cycle}
    IN  IF ready = {} THEN 0 ELSE CHOOSE i \in ready : \A j \in ready : i >= j

\* Faulty variant: the scan starts behind the first entry.
FirstDone_SkipsHead(s, c) ==
    LET ready == {i \in 2..Len(s.return_queue) : c >= s.return_queue[i].complete_cycle}
    IN  IF ready = {} THEN 0 ELSE Min(ready)

FirstDone(s, c) ==
    LET ready == {i \in 1..Len(s.return_queue) : c >= s.return_queue[i].complete_cycle}
    IN  IF ready = {} THEN 0 ELSE Min(ready)

ReturnDoneTrans(s, c) ==
    LET i == FirstDone(s, c)
    IN  IF i = 0 THEN s
        ELSE LET it == s.return_queue[i]
             IN  [s EXCEPT !.return_queue = RemoveAt(@, i),
                           !.resp_data = IF config.is_LRDIMM /\ ~it.is_write
                                         THEN Append(@, it.payload) ELSE @]

(***************************************************************************)
(* Controller::ClockTick.                                                 *)
(*   resp       the payload BufferOnBoard_.getRDResp delivers for the     *)
(*              oldest recorded READ, EmptyPayload when it delivers none; *)
(*   first      what FinishRefresh / GetCommandToIssue returns: 0 for an  *)
(*              invalid command, -1 for a command the queue made itself   *)
(*              (ACTIVATE, PRECHARGE, REFRESH: IssueCommand changes no    *)
(*              controller state for it), i > 0 for cmd_queue[i];         *)
(*   second     the same for the second GetCommandToIssue of HBM dual     *)
(*              issue, an index into the queue left by the first;         *)
(*   accept, accept_mrs  the command queue's answers to the scheduler.    *)
(* The per-rank power accounting and the self-refresh transitions write   *)
(* only statistics and channel_state_.                                    *)
(***************************************************************************)
MergeResp(s, resp) ==
    IF config.is_LRDIMM /\ resp # EmptyPayload
    THEN [s EXCEPT !.return_queue =
                       [i \in 1..Len(s.return_queue) |->
                           IF s.return_queue[i].addr = Head(s.bob_rd)
                           THEN [s.return_queue[i] EXCEPT !.payload = resp]
                           ELSE s.return_queue[i]],
                   !.bob_rd = Tail(@)]
    ELSE s

RecDDRcmd(s, cmd) ==
    IF config.is_LRDIMM /\ IsRead(cmd)
    THEN [s EXCEPT !.bob_rd = Append(@, cmd.hex_addr)]
    ELSE s

IssueFirst(s, first) ==
    IF first > 0
    THEN RecDDRcmd(IssueCommand([s EXCEPT !.cmd_queue = RemoveAt(@, first)],
                                s.cmd_queue[first]),
                   s.cmd_queue[first])
    ELSE s

IssueSecond(s, first_rw, second) ==
    IF second > 0 /\ IsReadWrite(s.cmd_queue[second]) # first_rw
    THEN IssueCommand([s EXCEPT !.cmd_queue = RemoveAt(@, second)], s.cmd_queue[second])
    ELSE s

\* The buffers with which ClockTick calls ScheduleTransaction.
BeforeSchedule(s, resp, first, second) ==
    LET s1 == MergeResp(s, resp)
        s2 == IssueFirst(s1, first)
        first_rw == first > 0 /\ IsReadWrite(s1.cmd_queue[first])
    IN  IF first # 0 /\ config.enable_hbm_dual_cmd
        THEN IssueSecond(s2, first_rw, second)
        ELSE s2

(***************************************************************************)
(* Controller::ClockTick, power updates.  all_idle is the set of ranks    *)
(* for which IsAllBankIdleInRank answers true in this tick, rank_q_empty  *)
(* the set of ranks whose command queue is empty, ready the set of ranks  *)
(* for which GetReadyCommand finds the self-refresh command ready.        *)
(***************************************************************************)
\* Part 1: the idle cycles of the ranks that are not in self-refresh.
PowerAccounting(s, all_idle) ==
    [s EXCEPT !.rank_idle_cycles =
        [r \in Ranks |-> IF r \in s.self_refreshing THEN @[r]
                         ELSE IF r \in all_idle THEN @[r] + 1
                         ELSE 0]]

\* The command the walk makes for rank i, "none" when it makes none.
SrefAttempt(s, i, rank_q_empty) ==
    IF i \in s.self_refreshing
    THEN IF i \notin rank_q_empty THEN "SREF_EXIT" ELSE "none"
    ELSE IF i \in rank_q_empty /\ s.rank_idle_cycles[i] >= sref_threshold
         THEN "SREF_ENTER" ELSE "none"

SrefCommand(type, i) == [cmd_type |-> type, rank |-> i, hex_addr |-> -1]

\* channel_state_.GetReadyCommand for a self-refresh command: the command
\* itself when it is ready, an invalid command otherwise.
GetReadyCommand(cmd, ready) ==
    IF cmd.rank \in ready THEN cmd ELSE SrefCommand("none", cmd.rank)

\* The walk over the ranks from rank i on: the state it leaves and the
\* commands it issued.
RECURSIVE SrefWalk(_, _, _, _)
SrefWalk(s, i, rank_q_empty, ready) ==
    IF i >= NumRanks THEN [state |-> s, issued |-> <<>>]
    ELSE LET type == SrefAttempt(s, i, rank_q_empty)
             cmd == GetReadyCommand(SrefCommand(type, i), ready)
         IN  IF type # "none" /\ cmd.cmd_type # "none"
             THEN [state |-> IssueCommand(s, cmd), issued |-> <<cmd>>]
             ELSE SrefWalk(s, i + 1, rank_q_empty, ready)

\* Faulty variant: the walk does not look at cmd_issued.
SrefTransitions_IgnoresIssued(s, cmd_issued, rank_q_empty, ready) ==
    IF enable_self_refresh
    THEN SrefWalk(s, 0, rank_q_empty, ready)
    ELSE [state |-> s, issued |-> <<>>]

\* Part 2: idle ranks enter self-refresh, ranks with work leave it.
SrefTransitions(s, cmd_issued, rank_q_empty, ready) ==
    IF enable_self_refresh /\ ~cmd_issued
    THEN SrefWalk(s, 0, rank_q_empty, ready)
    ELSE [state |-> s, issued |-> <<>>]

\* The answers of the channel state and of the command queue when no rank is
\* idle.
NoPower == [all_idle |-> {}, rank_q_empty |-> {}, ready |-> {}]

ClockTick(s, resp, first, second, power, accept, accept_mrs) ==
    LET s3 == BeforeSchedule(s, resp, first, second)
        s3a == PowerAccounting(s3, power.all_idle)
        s3b == SrefTransitions(s3a, first # 0, power.rank_q_empty, power.ready).state
        s4 == ScheduleTransaction(s3b, accept, accept_mrs)
    IN  [s4 EXCEPT !.clk = @ + 1]

(***************************************************************************)
(* The requester and the collaborators: the inputs of the actions.        *)
(***************************************************************************)
\* Payloads are opaque to the controller (copied and handed on, never computed
\* with), so every write and MRS carries a payload of its own, its id, and the
\* data a DRAM read delivers is one more value, DramData.  A read arrives with
\* no payload.  MRS transactions use the address MRSAddr.
NewTrans(addr, is_write, is_MRS) ==
    [id |-> next_id, addr |-> addr, is_write |-> is_write, is_MRS |-> is_MRS,
     payload |-> IF is_write \/ is_MRS THEN next_id ELSE EmptyPayload,
     added_cycle |-> 0, complete_cycle |-> 0, fwd |-> 0]

TransInputs ==
    {NewTrans(a, FALSE, FALSE) : a \in Addrs}
    \cup {NewTrans(a, TRUE, FALSE) : a \in Addrs}
    \cup {NewTrans(MRSAddr, FALSE, TRUE)}

\* getRDResp delivers nothing, or the data of the oldest recorded READ; the
\* controller asserts that a return_queue_ entry of that address exists.
RespChoices ==
    {EmptyPayload}
    \cup IF /\ config.is_LRDIMM
            /\ bob_rd # <<>>
            /\ \E i \in 1..Len(return_queue) : return_queue[i].addr = Head(bob_rd)
         THEN {DramData} ELSE {}

\* Whether the first command is invalid or one the queue made itself matters
\* to the controller's buffers only through the second, dual, issue.
IssueChoices(queue) ==
    (IF config.enable_hbm_dual_cmd THEN {-1} ELSE {}) \cup (0..Len(queue))

\* In one call the scheduler reads WillAcceptMRSCommand or WillAcceptCommand,
\* never both, and only the first accepted candidate matters: no bank, or one.
Answers ==
    {[accept |-> {}, accept_mrs |-> FALSE]}
    \cup {[accept |-> {b}, accept_mrs |-> TRUE] : b \in Banks}

(***************************************************************************)
(* Actions.                                                               *)
(***************************************************************************)
\* History kept with an admitted read: the payload of the pending write to its
\* address at the moment of admission (0 when there is none).  The controller
\* never reads or writes the field.
Tagged(t) ==
    [t EXCEPT !.fwd = IF ~t.is_write /\ ~t.is_MRS /\ pending_wr_q[t.addr] # <<>>
                      THEN pending_wr_q[t.addr][1].payload ELSE 0]

Admit(t) ==
    /\ ~fatal
    /\ next_id <= MaxTrans
    /\ \E s \in {AddTransaction(State, Tagged(t))} : Becomes(s)
    /\ next_id' = next_id + 1
    /\ admitted' = Append(admitted, [Tagged(t) EXCEPT !.added_cycle = clk])
    /\ UNCHANGED <<config, enable_self_refresh, done, accepted>>

\* The requester admits a transaction after WillAcceptTransaction said yes.
DoAddTransaction ==
    \E t \in TransInputs :
        /\ WillAcceptTransaction(State, t.addr, t.is_write, t.is_MRS)
        /\ Admit(t)
        /\ UNCHANGED checked

\* The requester drains the completions that are due before it advances the
\* clock: it calls ReturnDoneTrans until the call returns (-1, -1).  The
\* command queue never holds more than cmd_queue_size commands.
Tick ==
    /\ ~fatal
    /\ FirstDone(State, clk) = 0
    /\ \E resp \in RespChoices, first \in IssueChoices(cmd_queue), ans \in Answers :
         \E second \in IF config.enable_hbm_dual_cmd /\ first # 0
                       THEN IssueChoices(IssueFirst(State, first).cmd_queue)
                       ELSE {0} :
            \E s \in {ClockTick(State, resp, first, second, NoPower, ans.accept,
                                  ans.accept_mrs)} :
                /\ Len(s.cmd_queue) <= cmd_queue_size
                /\ Becomes(s)
    /\ UNCHANGED <<config, enable_self_refresh, next_id, admitted, done, checked>>

DoClockTick ==
    /\ clk < MaxClk
    /\ Tick
    /\ UNCHANGED accepted

\* A call of ReturnDoneTrans with the controller's clock that finds an entry
\* (with the on-DIMM buffer the controller asserts that the entry has a payload).
DoReturnDoneTrans ==
    /\ ~fatal
    /\ FirstDone(State, clk) # 0
    /\ LET it == return_queue[FirstDone(State, clk)]
       IN  /\ config.is_LRDIMM => it.payload # EmptyPayload
           /\ done' = [done EXCEPT ![it.id] = @ + 1]
    /\ \E s \in {ReturnDoneTrans(State, clk)} : Becomes(s)
    /\ UNCHANGED <<config, enable_self_refresh, next_id, admitted, accepted, checked>>

Next ==
    \/ DoAddTransaction
    \/ DoClockTick
    \/ DoReturnDoneTrans

Spec == Init /\ [][Next]_vars

(***************************************************************************)
(* A requester that asks WillAcceptTransaction and admits in a cycle any  *)
(* number of transactions of the class that was accepted last in that     *)
(* cycle.                                                                 *)
(***************************************************************************)
AdmitConfigs == {c \in Configs : ~c.is_LRDIMM /\ ~c.enable_hbm_dual_cmd}

InitAdmit == InitWith(AdmitConfigs, NotAsked)

DoWillAcceptTransaction ==
    \E a \in Addrs, w \in BOOLEAN, m \in BOOLEAN :
        /\ ~fatal
        /\ accepted' = [NotAsked EXCEPT ![Class(w, m)] =
                           IF WillAcceptTransaction(State, a, w, m) THEN "yes" ELSE "no"]
        /\ accepted' # accepted
        /\ UNCHANGED <<ctrl_vars, config, enable_self_refresh, next_id, admitted, done, checked>>

DoAddAccepted ==
    \E t \in TransInputs :
        /\ accepted[Class(t.is_write, t.is_MRS)] = "yes"
        /\ Admit(t)
        /\ checked' = (checked /\ WillAcceptTransaction(State, t.addr, t.is_write, t.is_MRS))

DoAdmitTick ==
    /\ clk < MaxClk
    /\ Tick
    /\ accepted' = NotAsked

NextAdmit ==
    \/ DoWillAcceptTransaction
    \/ DoAddAccepted
    \/ DoAdmitTick
    \/ DoReturnDoneTrans

SpecAdmit == InitAdmit /\ [][NextAdmit]_vars

(***************************************************************************)
(* The fair environment of the completion guarantee: ClockTick keeps being *)
(* called, the command queue issues its oldest command in every cycle and  *)
(* accepts every command offered to it, the on-DIMM buffer delivers the    *)
(* data of a READ in the cycle after its issue, and ReturnDoneTrans keeps  *)
(* being called with the current clock.  The controller only ever compares       *)
(* cycle stamps with the clock, so the clock and all stamps are kept       *)
(* relative: when the clock reaches MaxClk they all move back by           *)
(* LiveWindow (a stamp that far in the past stays in the past).            *)
(***************************************************************************)
LiveConfigs == {c \in Configs : ~c.enable_hbm_dual_cmd}

InitLive == InitWith(LiveConfigs, NotAsked)

Back(c) == IF c >= LiveWindow THEN c - LiveWindow ELSE 0

BackTrans(t) == [t EXCEPT !.added_cycle = Back(@), !.complete_cycle = Back(@)]

BackQueue(q) == [i \in 1..Len(q) |-> BackTrans(q[i])]

Rebase(s) ==
    IF s.clk < MaxClk THEN s
    ELSE [s EXCEPT !.clk = Back(@),
                   !.unified_queue = BackQueue(@),
                   !.read_queue = BackQueue(@),
                   !.write_buffer = BackQueue(@),
                   !.mrs_buffer = BackQueue(@),
                   !.return_queue = BackQueue(@),
                   !.pending_rd_q = [a \in Addrs |-> BackQueue(@[a])],
                   !.pending_wr_q = [a \in Addrs |-> BackQueue(@[a])]]

LiveTick ==
    /\ ~fatal
    /\ FirstDone(State, clk) = 0
    /\ \E s \in {ClockTick(State, IF DramData \in RespChoices THEN DramData ELSE EmptyPayload,
                           IF cmd_queue = <<>> THEN 0 ELSE 1, 0, NoPower, Banks, TRUE)} :
          \E r \in {Rebase(s)} :
             /\ Becomes(r)
             /\ admitted' = IF s.clk < MaxClk THEN admitted ELSE BackQueue(admitted)
    /\ UNCHANGED <<config, enable_self_refresh, next_id, done, accepted, checked>>

NextLive ==
    \/ DoAddTransaction
    \/ LiveTick
    \/ DoReturnDoneTrans

\* LiveTick is the only step of NextLive that changes clk, it always changes
\* it, and it is enabled exactly when the controller has not exited and no
\* completion is due: fairness of the clock is fairness of LiveTick.
NextClk(c) == IF c + 1 < MaxClk THEN c + 1 ELSE Back(c + 1)

ClockAdvances ==
    /\ ~fatal
    /\ FirstDone(State, clk) = 0
    /\ clk' = NextClk(clk)

SpecLive ==
    /\ InitLive
    /\ [][NextLive]_vars
    /\ WF_clk(ClockAdvances)
    /\ WF_vars(DoReturnDoneTrans)

(***************************************************************************)
(* A controller with room for DrainQueueSize - 1 or DrainQueueSize        *)
(* transactions per buffer, so that each threshold of the write drain is  *)
(* met without the other.  The controller starts after the requester      *)
(* admitted, in cycle 0, writes to the addresses 0 .. n-1 (n is           *)
(* WriteDrainLow or WriteDrainLow + 1); the requester then admits, when   *)
(* no completion is due, up to DrainExtra more transactions: a write to   *)
(* the lowest address without a pending write, a read of that address, a  *)
(* read of the address of the oldest buffered write, or an MRS.  The      *)
(* command queue issues its commands in order and accepts, each cycle, MRS *)
(* commands and the commands of one bank.                                 *)
(***************************************************************************)
DrainSizes == {DrainQueueSize - 1, DrainQueueSize}

DrainAddrs == 0..DrainQueueSize

DrainIds == 1..(WriteDrainLow + 1 + DrainExtra)

Constructed(cfg, size) ==
    [clk |-> 0, unified_queue |-> <<>>, read_queue |-> <<>>, write_buffer |-> <<>>,
     mrs_buffer |-> <<>>,
     capacity |-> [unified |-> IF cfg.unified_queue THEN size ELSE 0,
                   read    |-> IF cfg.unified_queue THEN 0 ELSE size,
                   write   |-> IF cfg.unified_queue THEN 0 ELSE size,
                   mrs     |-> size],
     pending_rd_q |-> [a \in DrainAddrs |-> <<>>],
     pending_wr_q |-> [a \in DrainAddrs |-> <<>>],
     return_queue |-> <<>>, resp_data |-> <<>>, write_draining |-> 0,
     cmd_queue |-> <<>>, bob_rd |-> <<>>, fatal |-> FALSE,
     rank_idle_cycles |-> [r \in Ranks |-> 0], self_refreshing |-> {},
     mrs_log |-> <<>>, wr_log |-> <<>>]

FirstWrite(k) ==
    [id |-> k, addr |-> k - 1, is_write |-> TRUE, is_MRS |-> FALSE, payload |-> k,
     added_cycle |-> 0, complete_cycle |-> 0, fwd |-> 0]

RECURSIVE AfterWrites(_, _, _)
AfterWrites(cfg, size, n) ==
    IF n = 0 THEN Constructed(cfg, size)
    ELSE CHOOSE s \in {AddTransaction(before, FirstWrite(n)) :
                          before \in {AfterWrites(cfg, size, n - 1)}} : TRUE

InitDrain ==
    /\ config \in AdmitConfigs
    /\ enable_self_refresh = FALSE
    /\ \E size \in DrainSizes, n \in {WriteDrainLow, WriteDrainLow + 1} :
          /\ config.unified_queue => size = DrainQueueSize /\ n = WriteDrainLow + 1
          /\ \E s \in {AfterWrites(config, size, n)} :
                /\ clk = s.clk
                /\ unified_queue = s.unified_queue
                /\ read_queue = s.read_queue
                /\ write_buffer = s.write_buffer
                /\ mrs_buffer = s.mrs_buffer
                /\ capacity = s.capacity
                /\ pending_rd_q = s.pending_rd_q
                /\ pending_wr_q = s.pending_wr_q
                /\ return_queue = s.return_queue
                /\ resp_data = s.resp_data
                /\ write_draining = s.write_draining
                /\ cmd_queue = s.cmd_queue
                /\ bob_rd = s.bob_rd
                /\ fatal = s.fatal
                /\ rank_idle_cycles = s.rank_idle_cycles
                /\ self_refreshing = s.self_refreshing
                /\ mrs_log = s.mrs_log
                /\ wr_log = s.wr_log
                /\ next_id = n + 1
                /\ admitted = [k \in 1..n |-> FirstWrite(k)]
    /\ done = [i \in DrainIds |-> 0]
    /\ accepted = NotAsked
    /\ checked = TRUE

\* The number of transactions admitted before the requester's other ones.
FirstWrites ==
    Cardinality({k \in 1..Len(admitted) : \A j \in 1..k : admitted[j] = FirstWrite(j)})

FreeAddrs == {a \in DrainAddrs : pending_wr_q[a] = <<>>}

OldestWrites ==
    {q[1].addr : q \in {w \in {write_buffer, unified_queue} : w # <<>> /\ w[1].is_write}}

DrainInputs ==
    {NewTrans(a, TRUE, FALSE) : a \in {b \in FreeAddrs : b = Min(FreeAddrs)}}
    \cup {NewTrans(a, FALSE, FALSE) : a \in {b \in FreeAddrs : b = Min(FreeAddrs)}}
    \cup {NewTrans(a, FALSE, FALSE) : a \in OldestWrites}
    \cup {NewTrans(MRSAddr, FALSE, TRUE)}

DoDrainAdd ==
    \E t \in DrainInputs :
        /\ ~fatal
        /\ next_id <= FirstWrites + DrainExtra
        /\ FirstDone(State, clk) = 0
        /\ WillAcceptTransaction(State, t.addr, t.is_write, t.is_MRS)
        /\ \E s \in {AddTransaction(State, Tagged(t))} : Becomes(s)
        /\ next_id' = next_id + 1
        /\ admitted' = Append(admitted, [Tagged(t) EXCEPT !.added_cycle = clk])
        /\ UNCHANGED <<config, enable_self_refresh, done, accepted, checked>>

\* The first command of the tick: none, or the oldest of the command queue.
DrainIssue == IF cmd_queue = <<>> THEN {0} ELSE {0, 1}

DoDrainTick ==
    /\ ~fatal
    /\ clk < DrainClk
    /\ FirstDone(State, clk) = 0
    /\ \E first \in DrainIssue, b \in Banks :
          \E s \in {ClockTick(State, EmptyPayload, first, 0, NoPower, {b}, TRUE)} :
             /\ Len(s.cmd_queue) <= cmd_queue_size
             /\ Becomes(s)
    /\ UNCHANGED <<config, enable_self_refresh, next_id, admitted, done, accepted, checked>>

NextDrain ==
    \/ DoDrainAdd
    \/ DoDrainTick
    \/ DoReturnDoneTrans

SpecDrain == InitDrain /\ [][NextDrain]_vars

(***************************************************************************)
(* The power management alone: self-refresh on or off, a requester that   *)
(* admits up to SrefTrans reads, and in every tick any answer of the      *)
(* channel state and of the command queue about the ranks.  The first     *)
(* command of a tick is none (0), a refresh command (-1) or a command of  *)
(* the command queue.                                                     *)
(***************************************************************************)
InitSref ==
    /\ InitCtrl(AdmitConfigs, NotAsked)
    /\ enable_self_refresh \in BOOLEAN

PowerInputs ==
    [all_idle : SUBSET Ranks, rank_q_empty : SUBSET Ranks, ready : SUBSET Ranks]

SrefIssue == {-1} \cup (0..Len(cmd_queue))

DoSrefAdd ==
    /\ next_id <= SrefTrans
    /\ WillAcceptTransaction(State, 0, FALSE, FALSE)
    /\ Admit(NewTrans(0, FALSE, FALSE))
    /\ UNCHANGED checked

DoSrefTick ==
    /\ ~fatal
    /\ clk < SrefClk
    /\ FirstDone(State, clk) = 0
    /\ \E first \in SrefIssue, power \in PowerInputs :
          \E s \in {ClockTick(State, EmptyPayload, first, 0, power, Banks, TRUE)} :
             Becomes(s)
    /\ UNCHANGED <<config, enable_self_refresh, next_id, admitted, done, accepted,
                   checked>>

NextSref ==
    \/ DoSrefAdd
    \/ DoSrefTick
    \/ DoReturnDoneTrans

SpecSref == InitSref /\ [][NextSref]_vars

(***************************************************************************)
(* Vocabulary of the properties.                                          *)
(***************************************************************************)
Range(q) == {q[i] : i \in 1..Len(q)}

\* The commands a step adds to cmd_queue (every command carries its own id).
Pushed == {c \in Range(cmd_queue') : \A d \in Range(cmd_queue) : d.id # c.id}

\* A step of ClockTick.
Ticked == clk' = clk + 1

IsReadTrans(t) == ~t.is_write /\ ~t.is_MRS

AdmittedIds == 1..Len(admitted)

(***************************************************************************)
(* C2 as claimed: in both queue configurations ScheduleTransaction never  *)
(* pushes a WRITE / WRITE_PRECHARGE for an address into cmd_queue while   *)
(* pending_rd_q holds an entry for that address.  (ScheduleTransaction    *)
(* runs last in the tick and does not touch pending_rd_q, so the map it   *)
(* reads is the one of the state after the step.)                         *)
(***************************************************************************)
NoWriteOverPendingRead ==
    \A c \in Pushed : IsWrite(c) => pending_rd_q'[c.hex_addr] = <<>>

C2_AsClaimed == [][NoWriteOverPendingRead]_vars

(***************************************************************************)
(* C2 amended: with split queues ScheduleTransaction never pushes a WRITE *)
(* / WRITE_PRECHARGE for an address into cmd_queue while pending_rd_q     *)
(* holds an entry for that address.                                       *)
(***************************************************************************)
C2_SplitNoWriteOverPendingRead ==
    [][~config.unified_queue => NoWriteOverPendingRead]_vars

\* Split queues, and a WRITE is in cmd_queue for an address that was read
\* before the write was admitted.
C2_Witness ==
    /\ ~config.unified_queue
    /\ \E c \in Range(cmd_queue) :
          /\ IsWrite(c)
          /\ \E i \in AdmittedIds :
                /\ i < c.id
                /\ IsReadTrans(admitted[i])
                /\ admitted[i].addr = c.hex_addr

(***************************************************************************)
(* C3 as claimed: two reads of one address, the second admitted before    *)
(* the completion cycle of the first was reached, have the same           *)
(* complete_cycle and the same data (stated of the entries of             *)
(* return_queue, where both have their completion cycle).                 *)
(***************************************************************************)
C3_AsClaimed ==
    \A i, j \in 1..Len(return_queue) :
        LET e1 == return_queue[i]
            e2 == return_queue[j]
        IN  (/\ IsReadTrans(e1) /\ IsReadTrans(e2)
             /\ e1.addr = e2.addr
             /\ e1.id < e2.id
             /\ e2.added_cycle < e1.complete_cycle)
            => (e2.complete_cycle = e1.complete_cycle /\ e2.payload = e1.payload)

(***************************************************************************)
(* C3 amended: reads of one address that are admitted while the first is  *)
(* still in pending_rd_q and no write to the address is pending wait in   *)
(* pending_rd_q together, and the READ that is issued for the address     *)
(* moves them all to return_queue with one complete_cycle and one         *)
(* payload; as long as they are in return_queue their payloads agree.     *)
(***************************************************************************)
CopiesOf(id, q) == Cardinality({i \in 1..Len(q) : q[i].id = id})

DramReadWaits(id) ==
    CopiesOf(id, pending_rd_q[admitted[id].addr])
        + CopiesOf(id, return_queue) + done[id] = 1

CoalescedTogether(a) ==
    \A k, l \in 1..Len(pending_rd_q[a]) :
        \E i, j \in 1..Len(return_queue') :
            /\ return_queue'[i].id = pending_rd_q[a][k].id
            /\ return_queue'[j].id = pending_rd_q[a][l].id
            /\ return_queue'[i].complete_cycle = return_queue'[j].complete_cycle
            /\ return_queue'[i].payload = return_queue'[j].payload

C3_CoalescedReads ==
    /\ [](\A id \in AdmittedIds :
            (IsReadTrans(admitted[id]) /\ admitted[id].fwd = 0) => DramReadWaits(id))
    /\ [](\A i, j \in 1..Len(return_queue) :
            LET e1 == return_queue[i]
                e2 == return_queue[j]
            IN  (/\ IsReadTrans(e1) /\ IsReadTrans(e2)
                 /\ e1.fwd = 0 /\ e2.fwd = 0
                 /\ e1.addr = e2.addr
                 /\ e1.complete_cycle = e2.complete_cycle)
                => e1.payload = e2.payload)
    /\ [][\A a \in Addrs :
            (pending_rd_q[a] # <<>> /\ pending_rd_q'[a] = <<>>) => CoalescedTogether(a)]_vars

\* Two reads admitted in different cycles sit in return_queue with one
\* completion cycle.
C3_Witness ==
    \E i, j \in 1..Len(return_queue) :
        /\ IsReadTrans(return_queue[i]) /\ IsReadTrans(return_queue[j])
        /\ return_queue[i].fwd = 0 /\ return_queue[j].fwd = 0
        /\ return_queue[i].addr = return_queue[j].addr
        /\ return_queue[i].added_cycle < return_queue[j].added_cycle
        /\ return_queue[i].complete_cycle = return_queue[j].complete_cycle

(***************************************************************************)
(* C4 as claimed: a read admitted while pending_wr_q holds its address is *)
(* never in pending_rd_q, a transaction queue or cmd_queue; its           *)
(* return_queue entry completes at added_cycle + 1; and the entry         *)
(* ReturnDoneTrans is about to return carries the payload the pending     *)
(* write held when the read was admitted.                                 *)
(***************************************************************************)
InFlight(id) ==
    \/ \E a \in Addrs : CopiesOf(id, pending_rd_q[a]) > 0
    \/ CopiesOf(id, unified_queue) + CopiesOf(id, read_queue)
         + CopiesOf(id, write_buffer) + CopiesOf(id, cmd_queue) > 0

C4_AsClaimed ==
    \A id \in AdmittedIds :
        admitted[id].fwd # 0 =>
            /\ ~InFlight(id)
            /\ \A i \in 1..Len(return_queue) :
                  return_queue[i].id = id =>
                      /\ return_queue[i].complete_cycle = admitted[id].added_cycle + 1
                      /\ FirstDone(State, clk) = i =>
                             return_queue[i].payload = admitted[id].fwd

(***************************************************************************)
(* C5: every admitted write (merged or not) and every admitted MRS has    *)
(* exactly one return_queue entry from its admission until it is          *)
(* returned, with complete_cycle = added_cycle + 1, whatever is issued    *)
(* meanwhile: the entries in return_queue plus the completions returned   *)
(* are always exactly one.                                                *)
(***************************************************************************)
C5_AckAtAdmission ==
    \A id \in AdmittedIds :
        (admitted[id].is_write \/ admitted[id].is_MRS) =>
            /\ CopiesOf(id, return_queue) + done[id] = 1
            /\ \A i \in 1..Len(return_queue) :
                  return_queue[i].id = id =>
                      return_queue[i].complete_cycle = admitted[id].added_cycle + 1

\* A WRITE and an MRS command have been issued, and the write and the MRS
\* each completed once.
C5_Witness ==
    /\ \E e \in Range(wr_log) : done[e.id] = 1
    /\ \E k \in 1..Len(mrs_log) :
          /\ done[mrs_log[k]] = 1
          /\ CopiesOf(mrs_log[k], cmd_queue) = 0

(***************************************************************************)
(* C6: pending_wr_q holds at most one entry per address, as many as there *)
(* are writes of the address waiting in a transaction queue or in         *)
(* cmd_queue; the pending entry carries the payload of the last write     *)
(* admitted for the address; a read admitted while the entry is pending   *)
(* gets that payload in its return_queue entry; and the WRITE that is     *)
(* issued retires the entry with that payload.                            *)
(***************************************************************************)
Max(S) == CHOOSE x \in S : \A y \in S : x >= y

WriteIds(a) == {i \in AdmittedIds : admitted[i].is_write /\ admitted[i].addr = a}

LastWritten(a) == IF WriteIds(a) = {} THEN EmptyPayload ELSE admitted[Max(WriteIds(a))].payload

WritesWaiting(a) ==
    Cardinality({i \in 1..Len(unified_queue) :
                    unified_queue[i].is_write /\ unified_queue[i].addr = a})
    + Cardinality({i \in 1..Len(write_buffer) : write_buffer[i].addr = a})
    + Cardinality({i \in 1..Len(cmd_queue) :
                      IsWrite(cmd_queue[i]) /\ cmd_queue[i].hex_addr = a})

OnePendingWrite ==
    \A a \in Addrs :
        /\ Len(pending_wr_q[a]) <= 1
        /\ WritesWaiting(a) = Len(pending_wr_q[a])
        /\ pending_wr_q[a] # <<>> => pending_wr_q[a][1].payload = LastWritten(a)

ForwardsLastWritten ==
    (next_id' = next_id + 1 /\ admitted'[next_id].fwd # 0) =>
        LET e == return_queue'[Len(return_queue')]
        IN  /\ e.id = next_id
            /\ e.payload = LastWritten(e.addr)

IssuesLastWritten ==
    \A k \in (Len(wr_log) + 1)..Len(wr_log') :
        wr_log'[k].payload = LastWritten(wr_log'[k].addr)

C6_WriteMerging ==
    /\ []OnePendingWrite
    /\ [][ForwardsLastWritten /\ IssuesLastWritten]_vars

\* A WRITE was issued with the payload of a later, merged, write, and a read
\* was forwarded a merged payload.
C6_Witness ==
    /\ \E e \in Range(wr_log) : e.payload # e.id
    /\ \E id \in AdmittedIds :
          /\ admitted[id].fwd # 0
          /\ \E w \in WriteIds(admitted[id].addr) :
                w < id /\ admitted[w].payload # admitted[id].fwd

(***************************************************************************)
(* C7: the MRS commands are put into cmd_queue in the order in which the  *)
(* MRS transactions were admitted: the ids pushed so far, followed by the *)
(* ids still in mrs_buffer, are the admitted MRS transactions in order.   *)
(***************************************************************************)
IsMRSTrans(t) == t.is_MRS

IdsOf(q) == [i \in 1..Len(q) |-> q[i].id]

C7_MRSOrder == mrs_log \o IdsOf(mrs_buffer) = IdsOf(SelectSeq(admitted, IsMRSTrans))

\* Two MRS transactions admitted in cycle 0 were both pushed, the second not
\* before the third tick: the command queue refused an MRS in between.
C7_Witness ==
    /\ Len(mrs_log) = 2
    /\ \A k \in 1..2 : admitted[mrs_log[k]].added_cycle = 0
    /\ mrs_buffer = <<>>
    /\ clk = 3
    /\ CopiesOf(mrs_log[2], cmd_queue) = 1

(***************************************************************************)
(* C8: in a tick that finds mrs_buffer non-empty no transaction leaves    *)
(* unified_queue, read_queue or write_buffer and nothing but the MRS at   *)
(* the head of mrs_buffer is pushed into cmd_queue; mrs_buffer loses at   *)
(* most its head, and only when that MRS was pushed.                      *)
(***************************************************************************)
C8_MRSPriority ==
    [][(Ticked /\ mrs_buffer # <<>>) =>
          /\ unified_queue' = unified_queue
          /\ read_queue' = read_queue
          /\ write_buffer' = write_buffer
          /\ \A c \in Pushed : IsMRSCMD(c) /\ c.id = mrs_buffer[1].id
          /\ \/ mrs_buffer' = mrs_buffer /\ Pushed = {}
             \/ mrs_buffer' = Tail(mrs_buffer) /\ Pushed # {}]_vars

\* An MRS and a read or write have both waited through a tick in which the
\* command queue refused the MRS.
C8_Witness ==
    /\ mrs_buffer # <<>>
    /\ mrs_buffer[1].added_cycle < clk
    /\ \E t \in Range(unified_queue) \cup Range(read_queue) \cup Range(write_buffer) :
          t.added_cycle < clk

(***************************************************************************)
(* C9 as claimed: when every transaction is admitted in a cycle in which  *)
(* WillAcceptTransaction returned true for its class, no transaction      *)
(* buffer ever holds more than trans_queue_size transactions.             *)
(***************************************************************************)
WithinCapacity ==
    /\ Len(unified_queue) <= trans_queue_size
    /\ Len(read_queue) <= trans_queue_size
    /\ Len(write_buffer) <= trans_queue_size
    /\ Len(mrs_buffer) <= trans_queue_size

C9_AsClaimed == WithinCapacity

(***************************************************************************)
(* C9: when WillAcceptTransaction returns true for each transaction at    *)
(* the moment it is admitted (the answer is asked again after every       *)
(* admission), no transaction buffer ever holds more than                 *)
(* trans_queue_size transactions, and no buffer ever reallocates.         *)
(***************************************************************************)
C9_CapacityBounds == checked => (WithinCapacity /\ capacity = InitCapacity(config))

\* Two transactions admitted in one cycle, each accepted when admitted, fill a
\* buffer, and WillAcceptTransaction has refused a third.
C9_Witness ==
    /\ checked
    /\ \E i, j \in AdmittedIds :
          i # j /\ admitted[i].added_cycle = admitted[j].added_cycle
    /\ \/ Len(mrs_buffer) = trans_queue_size /\ accepted["mrs"] = "no"
       \/ Len(write_buffer) = trans_queue_size /\ accepted["write"] = "no"

(***************************************************************************)
(* C10: WillAcceptTransaction changes no controller state, and it returns *)
(* true iff the buffer of the class is below its capacity: mrs_buffer for *)
(* an MRS, otherwise unified_queue with a unified queue, otherwise        *)
(* write_buffer for a write and read_queue for a read; the address and    *)
(* the pending maps do not enter the answer.                              *)
(***************************************************************************)
BelowCapacity(class) ==
    IF class = "mrs" THEN Len(mrs_buffer) < capacity.mrs
    ELSE IF config.unified_queue THEN Len(unified_queue) < capacity.unified
    ELSE IF class = "write" THEN Len(write_buffer) < capacity.write
    ELSE Len(read_queue) < capacity.read

C10_WillAccept ==
    [][\A class \in Classes :
          (accepted'[class] # accepted[class] /\ accepted'[class] # "none") =>
              /\ UNCHANGED ctrl_vars
              /\ (accepted'[class] = "yes") = BelowCapacity(class)]_vars

\* With split queues an MRS was refused in a state where mrs_buffer is full,
\* write_buffer is not, and a write is pending on an address.
C10_Witness ==
    /\ ~config.unified_queue
    /\ accepted["mrs"] = "no"
    /\ Len(mrs_buffer) = capacity.mrs
    /\ Len(write_buffer) < capacity.write
    /\ \E a \in Addrs : pending_wr_q[a] # <<>>

(***************************************************************************)
(* C1 as claimed: under the fair environment every admitted transaction   *)
(* is eventually returned by ReturnDoneTrans exactly once.  Completions   *)
(* are only ever counted up and at most MaxTrans transactions are         *)
(* admitted, so this is: again and again, every transaction admitted so   *)
(* far has been returned exactly once.                                    *)
(***************************************************************************)
AllReturnedOnce == \A id \in Ids : id < next_id => done[id] = 1

C1_AsClaimed == []<>AllReturnedOnce

\* The same guarantee with a unified queue only.
C1_UnifiedCompletes == []<>(config.unified_queue => AllReturnedOnce)

(***************************************************************************)
(* C11: ReturnDoneTrans(clk) removes exactly one entry of return_queue,   *)
(* the earliest-inserted one whose complete_cycle <= clk, whether or not  *)
(* entries that are not ready precede it, and keeps the others in their   *)
(* order; it never takes an entry whose complete_cycle > clk; when no     *)
(* entry is ready it changes nothing.  Checked for every clock value in   *)
(* every reachable state, and on the calls the requester makes.           *)
(***************************************************************************)
Ready(c) == {i \in 1..Len(return_queue) : return_queue[i].complete_cycle <= c}

Without(q, i) == SubSeq(q, 1, i - 1) \o SubSeq(q, i + 1, Len(q))

ReturnsEarliestReady ==
    \A c \in 0..MaxClk :
        LET r == ReturnDoneTrans(State, c)
        IN  IF Ready(c) = {} THEN r = State
            ELSE \E i \in Ready(c) :
                    /\ \A j \in Ready(c) : i <= j
                    /\ r.return_queue = Without(return_queue, i)
                    /\ [r EXCEPT !.return_queue = return_queue,
                                 !.resp_data = resp_data] = State

ReturnedIsEarliestReady ==
    \A id \in Ids :
        done'[id] # done[id] =>
            \E i \in Ready(clk) :
                /\ return_queue[i].id = id
                /\ \A j \in 1..(i - 1) : return_queue[j].complete_cycle > clk
                /\ return_queue' = Without(return_queue, i)
                /\ done' = [done EXCEPT ![id] = @ + 1]

C11_ReturnFrame == []ReturnsEarliestReady /\ [][ReturnedIsEarliestReady]_vars

\* A write admitted after a READ was issued has been returned while the
\* read's entry, inserted before the write's, is still waiting.
C11_Witness ==
    \E i \in 1..Len(return_queue) :
        LET e == return_queue[i]
        IN  /\ IsReadTrans(e) /\ e.fwd = 0
            /\ e.complete_cycle > clk
            /\ \E id \in AdmittedIds :
                  /\ admitted[id].is_write
                  /\ done[id] = 1
                  /\ admitted[id].added_cycle + read_delay
                       + (IF config.is_LRDIMM THEN tPDM_RD + tRPRE ELSE 0)
                     > e.complete_cycle

(***************************************************************************)
(* C12: when ReturnDoneTrans keeps being called with a clock that keeps   *)
(* advancing, every entry appended to return_queue is eventually removed  *)
(* and returned, also when entries with an earlier complete_cycle are     *)
(* appended behind it.  At most MaxTrans entries are ever appended, so    *)
(* this is: return_queue is empty again and again.                        *)
(***************************************************************************)
C12_ReturnQueueDrains == []<>(return_queue = <<>>)

\* A read's entry has become ready at the head of return_queue after a write
\* that was appended behind it, with an earlier complete_cycle, was returned.
C12_Witness ==
    /\ return_queue # <<>>
    /\ LET e == return_queue[1]
       IN  /\ IsReadTrans(e) /\ e.fwd = 0
           /\ e.complete_cycle <= clk
           /\ \E id \in AdmittedIds :
                 /\ admitted[id].is_write
                 /\ done[id] = 1
                 /\ admitted[id].added_cycle + 1 < e.complete_cycle
                 /\ admitted[id].added_cycle + read_delay + tPDM_RD + tRPRE
                      > e.complete_cycle

(***************************************************************************)
(* C13: when a READ / READ_PRECHARGE for address A is issued at cycle k,  *)
(* every entry pending_rd_q holds for A is appended to return_queue, in   *)
(* order, with complete_cycle = k + read_delay (plus tPDM_RD + tRPRE with *)
(* the on-DIMM buffer) and otherwise as it was; pending_rd_q holds no     *)
(* entry for A afterwards, and its entries for other addresses are        *)
(* untouched.  (A command leaves cmd_queue only by being issued, and one  *)
(* tick issues at most one READ.)                                         *)
(***************************************************************************)
IssuedReads ==
    {c \in Range(cmd_queue) : IsRead(c) /\ \A d \in Range(cmd_queue') : d.id # c.id}

Appended == SubSeq(return_queue', Len(return_queue) + 1, Len(return_queue'))

ReadIssueMovesAll ==
    (Ticked /\ ~fatal') =>
        /\ \A c \in IssuedReads :
              LET reads == pending_rd_q[c.hex_addr]
              IN  /\ reads # <<>>
                  /\ pending_rd_q'[c.hex_addr] = <<>>
                  /\ Appended =
                        [i \in 1..Len(reads) |->
                            [reads[i] EXCEPT !.complete_cycle =
                                clk + read_delay
                                    + (IF config.is_LRDIMM THEN tPDM_RD + tRPRE ELSE 0)]]
        /\ \A a \in Addrs :
              (\A c \in IssuedReads : c.hex_addr # a) => pending_rd_q'[a] = pending_rd_q[a]
        /\ IssuedReads = {} => Appended = <<>>

C13_ReadIssue == [][ReadIssueMovesAll]_vars

\* With the on-DIMM buffer a READ issued in the last tick moved two coalesced
\* reads, admitted in different cycles, while a read of the other address
\* stayed pending.
C13_Witness ==
    /\ config.is_LRDIMM
    /\ \E i, j \in 1..Len(return_queue) :
          /\ i < j
          /\ IsReadTrans(return_queue[i]) /\ IsReadTrans(return_queue[j])
          /\ return_queue[i].fwd = 0 /\ return_queue[j].fwd = 0
          /\ return_queue[i].addr = return_queue[j].addr
          /\ return_queue[i].added_cycle < return_queue[j].added_cycle
          /\ return_queue[i].complete_cycle = clk - 1 + read_delay + tPDM_RD + tRPRE
          /\ return_queue[j].complete_cycle = return_queue[i].complete_cycle
          /\ pending_rd_q[return_queue[i].addr] = <<>>
          /\ \E a \in Addrs : pending_rd_q[a] # <<>>

(***************************************************************************)
(* C18: when the command queue hands back only READ / WRITE commands that *)
(* ScheduleTransaction pushed, each once, IssueCommand never takes a      *)
(* fatal exit: an address has entries in pending_rd_q (in pending_wr_q)   *)
(* iff exactly one read (write) of it waits in a transaction queue or in  *)
(* cmd_queue, and never more than one does.                               *)
(***************************************************************************)
ReadsWaiting(a) ==
    Cardinality({i \in 1..Len(unified_queue) :
                    IsReadTrans(unified_queue[i]) /\ unified_queue[i].addr = a})
    + Cardinality({i \in 1..Len(read_queue) : read_queue[i].addr = a})
    + Cardinality({i \in 1..Len(cmd_queue) :
                      IsRead(cmd_queue[i]) /\ cmd_queue[i].hex_addr = a})

C18_NoFatalExit ==
    /\ ~fatal
    /\ \A a \in Addrs :
          /\ ReadsWaiting(a) = (IF pending_rd_q[a] # <<>> THEN 1 ELSE 0)
          /\ WritesWaiting(a) = (IF pending_wr_q[a] # <<>> THEN 1 ELSE 0)

\* A READ that served two coalesced reads and a WRITE have both been issued.
C18_Witness ==
    /\ wr_log # <<>>
    /\ \E i, j \in AdmittedIds :
          /\ i # j
          /\ IsReadTrans(admitted[i]) /\ IsReadTrans(admitted[j])
          /\ admitted[i].fwd = 0 /\ admitted[j].fwd = 0
          /\ admitted[i].addr = admitted[j].addr
          /\ CopiesOf(i, return_queue) + done[i] = 1
          /\ CopiesOf(j, return_queue) + done[j] = 1

(***************************************************************************)
(* C15: with split queues, when ScheduleTransaction serves write_buffer   *)
(* and the first write whose bank the command queue accepts is to an      *)
(* address with a pending read, the call sets write_draining to 0 and     *)
(* changes nothing else: nothing is promoted, and write_buffer,           *)
(* read_queue, cmd_queue and both pending maps stay as they were.         *)
(* Checked on every state in which a tick can call ScheduleTransaction    *)
(* and for every answer of the command queue.                             *)
(***************************************************************************)
SecondChoices(first) ==
    IF config.enable_hbm_dual_cmd /\ first # 0
    THEN IssueChoices(IssueFirst(State, first).cmd_queue)
    ELSE {0}

Acceptable(q, accept) == {i \in 1..Len(q) : AddressMapping(q[i].addr) \in accept}

ServesWrites(s) ==
    /\ ~config.unified_queue
    /\ ~s.fatal
    /\ s.mrs_buffer = <<>>
    /\ \/ s.write_draining > 0
       \/ Len(s.write_buffer) >= s.capacity.write
       \/ Len(s.write_buffer) > WriteDrainLow /\ s.cmd_queue = <<>>

C15_AbortFrame ==
    \A resp \in RespChoices, first \in IssueChoices(cmd_queue), ans \in Answers :
        \A second \in SecondChoices(first) :
            LET s == BeforeSchedule(State, resp, first, second)
                cand == Acceptable(s.write_buffer, ans.accept)
            IN  (/\ ServesWrites(s)
                 /\ cand # {}
                 /\ s.pending_rd_q[s.write_buffer[Min(cand)].addr] # <<>>)
                => ScheduleTransaction(s, ans.accept, ans.accept_mrs)
                     = [s EXCEPT !.write_draining = 0]

\* The last tick found write_buffer full, entered the drain and gave it up:
\* a buffered write has a pending read.
C15_Witness ==
    /\ ~config.unified_queue
    /\ clk > 0
    /\ Len(write_buffer) = capacity.write
    /\ write_draining = 0
    /\ \A i \in 1..Len(write_buffer) : write_buffer[i].added_cycle < clk
    /\ \E i \in 1..Len(write_buffer) : pending_rd_q[write_buffer[i].addr] # <<>>


(***************************************************************************)
(* C19: in every reachable state 0 <= write_draining <= the length of     *)
(* write_buffer, whatever the interleaving of admissions, MRS cycles,     *)
(* scheduled writes and R->W aborts; with the unified queue               *)
(* write_draining is always 0.                                            *)
(***************************************************************************)
C19_DrainWithinBuffer ==
    /\ 0 <= write_draining
    /\ write_draining <= Len(write_buffer)
    /\ config.unified_queue => write_draining = 0

\* A drain in progress that has promoted writes, beside it a buffered write
\* the drain does not count and an MRS promoted meanwhile.
C19_Witness ==
    /\ ~config.unified_queue
    /\ 0 < write_draining
    /\ write_draining < Len(write_buffer)
    /\ write_draining + 1 < FirstWrites
    /\ mrs_log # <<>>


(***************************************************************************)
(* C14: with split queues a ScheduleTransaction call that starts with     *)
(* write_draining = 0 sets it to the length of write_buffer iff           *)
(* write_buffer is filled to its capacity, or holds more than             *)
(* WriteDrainLow writes while cmd_queue is empty, and otherwise leaves it *)
(* 0; the queue then served is mrs_buffer if it is not empty, else        *)
(* write_buffer if write_draining > 0, else read_queue.  With the unified *)
(* queue no call changes write_draining from 0.                           *)
(* Checked on every state in which a tick can call ScheduleTransaction:   *)
(* the value set is read off a call in which the command queue accepts    *)
(* nothing, the queue served off a call in which it accepts everything.   *)
(***************************************************************************)
MeetsThreshold(s) ==
    \/ Len(s.write_buffer) >= s.capacity.write
    \/ Len(s.write_buffer) > WriteDrainLow /\ s.cmd_queue = <<>>

Served(s, drain) ==
    IF s.mrs_buffer # <<>> THEN "mrs" ELSE IF drain > 0 THEN "write" ELSE "read"

\* Only the queue named loses a transaction, and it loses its first one
\* unless it is empty or the write is held back by a pending read.
ServedFrom(s, after, name) ==
    /\ name # "mrs" => after.mrs_buffer = s.mrs_buffer
    /\ name # "write" => after.write_buffer = s.write_buffer
    /\ name # "read" => after.read_queue = s.read_queue
    /\ after.unified_queue = s.unified_queue
    /\ name = "mrs" => after.mrs_buffer = Tail(s.mrs_buffer)
    /\ (name = "read" /\ s.read_queue # <<>>) => after.read_queue = Tail(s.read_queue)
    /\ (name = "write" /\ s.pending_rd_q[s.write_buffer[1].addr] = <<>>)
          => after.write_buffer = Tail(s.write_buffer)

C14_DrainEntry ==
    \A first \in DrainIssue :
        LET s == BeforeSchedule(State, EmptyPayload, first, 0)
            refused == ScheduleTransaction(s, {}, FALSE)
            taken == ScheduleTransaction(s, Banks, TRUE)
            drain == IF MeetsThreshold(s) THEN Len(s.write_buffer) ELSE 0
        IN  /\ (~config.unified_queue /\ ~s.fatal /\ s.write_draining = 0)
                => /\ refused.write_draining = drain
                   /\ ServedFrom(s, taken, Served(s, drain))
            /\ config.unified_queue
                => /\ s.write_draining = 0
                   /\ refused.write_draining = 0
                   /\ taken.write_draining = 0

\* The last tick found more than WriteDrainLow writes, fewer than the
\* capacity, and an empty command queue: it entered the drain and promoted a
\* write.
C14_Witness ==
    /\ ~config.unified_queue
    /\ clk = 1
    /\ capacity.write = DrainQueueSize
    /\ write_draining = WriteDrainLow
    /\ Len(write_buffer) = WriteDrainLow
    /\ Len(cmd_queue) = 1


(***************************************************************************)
(* C16: with split queues and a drain in progress, write_draining = 5,    *)
(* the requester admits a read of address a and ScheduleTransaction then  *)
(* finds a write to a as its first acceptable candidate.                  *)
(* As claimed, the call resets write_draining to 0 and promotes nothing,  *)
(* whether the write was admitted before the read or after it.            *)
(* As the controller does it: a read admitted while the write is pending  *)
(* is answered from the write and is not recorded in pending_rd_q, so the *)
(* call promotes the write and write_draining becomes 4, unless a read of *)
(* a admitted before the write is still pending; when the write is        *)
(* admitted after the read, the call resets write_draining to 0 and       *)
(* promotes nothing.                                                      *)
(* Checked on every state with write_draining = 5, for every address and  *)
(* every set of banks the command queue may accept.                       *)
(***************************************************************************)
DrainOfFive ==
    /\ ~config.unified_queue
    /\ ~fatal
    /\ write_draining = 5
    /\ mrs_buffer = <<>>

Buffered(a) == \E i \in 1..Len(write_buffer) : write_buffer[i].addr = a

\* The read of a is admitted while a write to a is buffered.
AfterRead(a) == AddTransaction(State, Tagged(NewTrans(a, FALSE, FALSE)))

\* The read of a is admitted, then a write to a.
AfterReadThenWrite(a) ==
    AddTransaction(AfterRead(a),
                   [NewTrans(a, TRUE, FALSE) EXCEPT !.id = next_id + 1,
                                                    !.payload = next_id + 1])

FirstAcceptable(s, accept, a) ==
    /\ Acceptable(s.write_buffer, accept) # {}
    /\ s.write_buffer[Min(Acceptable(s.write_buffer, accept))].addr = a

DrainReset(s, accept) ==
    ScheduleTransaction(s, accept, TRUE) = [s EXCEPT !.write_draining = 0]

WritePromoted(s, accept, a) ==
    LET after == ScheduleTransaction(s, accept, TRUE)
    IN  /\ after.write_draining = s.write_draining - 1
        /\ Len(after.write_buffer) = Len(s.write_buffer) - 1
        /\ after.cmd_queue =
              Append(s.cmd_queue,
                     TransToCommand(s.write_buffer[Min(Acceptable(s.write_buffer, accept))]))
        /\ after.cmd_queue[Len(after.cmd_queue)].hex_addr = a

WriteFirst(a) ==
    /\ Buffered(a)
    /\ WillAcceptTransaction(State, a, FALSE, FALSE)

ReadFirst(a) ==
    /\ pending_wr_q[a] = <<>>
    /\ WillAcceptTransaction(State, a, FALSE, FALSE)
    /\ WillAcceptTransaction(AfterRead(a), a, TRUE, FALSE)

C16_AsClaimed ==
    DrainOfFive =>
        \A a \in DrainAddrs, accept \in SUBSET Banks :
            /\ (WriteFirst(a) /\ FirstAcceptable(AfterRead(a), accept, a))
                  => DrainReset(AfterRead(a), accept)
            /\ (ReadFirst(a) /\ FirstAcceptable(AfterReadThenWrite(a), accept, a))
                  => DrainReset(AfterReadThenWrite(a), accept)

C16_ResetOnlyForPendingRead ==
    DrainOfFive =>
        \A a \in DrainAddrs, accept \in SUBSET Banks :
            /\ (WriteFirst(a) /\ FirstAcceptable(AfterRead(a), accept, a))
                  => /\ AfterRead(a).pending_rd_q = pending_rd_q
                     /\ AfterRead(a).read_queue = read_queue
                     /\ IF pending_rd_q[a] # <<>>
                        THEN DrainReset(AfterRead(a), accept)
                        ELSE /\ WritePromoted(AfterRead(a), accept, a)
                             /\ ScheduleTransaction(AfterRead(a), accept, TRUE)
                                   .write_draining = 4
            /\ (ReadFirst(a) /\ FirstAcceptable(AfterReadThenWrite(a), accept, a))
                  => DrainReset(AfterReadThenWrite(a), accept)

\* In cycle 4, with write_draining = 5, the requester admitted a read and then
\* a write to the same address; the tick found that write the first
\* acceptable one and gave the drain up.
C16_Witness ==
    /\ ~config.unified_queue
    /\ clk = DrainClk
    /\ write_draining = 0
    /\ Len(write_buffer) = 6
    /\ Len(admitted) = FirstWrites + 2
    /\ LET r == admitted[FirstWrites + 1]
           w == admitted[FirstWrites + 2]
       IN  /\ IsReadTrans(r) /\ w.is_write /\ r.addr = w.addr
           /\ r.added_cycle = DrainClk - 1 /\ w.added_cycle = DrainClk - 1
           /\ read_queue # <<>>
           /\ write_buffer[6].addr = w.addr


(***************************************************************************)
(* C20: with split queues every read placed in read_queue is eventually   *)
(* promoted to cmd_queue when the clock keeps ticking, mrs_buffer empties *)
(* and the command queue accepts the commands of every bank: the          *)
(* scheduler does not stay for ever in a state where write_buffer is      *)
(* selected each cycle and nothing is promoted.  The requester admits a   *)
(* bounded number of transactions, so the claim is that read_queue is     *)
(* empty again and again.                                                 *)
(***************************************************************************)
C20_AsClaimed == []<>(~config.unified_queue => read_queue = <<>>)


(***************************************************************************)
(* C17: within one tick a self-refresh command is issued only if          *)
(* self-refresh is enabled and no refresh or queue command was issued in  *)
(* that tick, and at most one is issued; SREF_ENTER is issued for rank r  *)
(* only if r is not self-refreshing, its command queue is empty and       *)
(* rank_idle_cycles[r], as updated by this tick's power accounting, is at *)
(* least sref_threshold; SREF_EXIT is issued for rank r only if r is      *)
(* self-refreshing and its command queue is not empty.                    *)
(* Checked on every state for every first command and every answer about  *)
(* the ranks, and on every step that changes the ranks in self-refresh.   *)
(***************************************************************************)
IsSref(cmd) == cmd.cmd_type \in {"SREF_ENTER", "SREF_EXIT"}

SrefGuards ==
    \A first \in SrefIssue, power \in PowerInputs :
        LET counted == PowerAccounting(State, power.all_idle)
            out == SrefTransitions(counted, first # 0, power.rank_q_empty, power.ready)
        IN  /\ Len(out.issued) <= 1
            /\ out.issued # <<>> => enable_self_refresh /\ first = 0
            /\ \A k \in 1..Len(out.issued) :
                  LET cmd == out.issued[k]
                  IN  /\ IsSref(cmd)
                      /\ cmd.cmd_type = "SREF_ENTER"
                            => /\ cmd.rank \notin self_refreshing
                               /\ cmd.rank \in power.rank_q_empty
                               /\ counted.rank_idle_cycles[cmd.rank] >= sref_threshold
                               /\ out.state.self_refreshing
                                     = self_refreshing \cup {cmd.rank}
                      /\ cmd.cmd_type = "SREF_EXIT"
                            => /\ cmd.rank \in self_refreshing
                               /\ cmd.rank \notin power.rank_q_empty
                               /\ out.state.self_refreshing
                                     = self_refreshing \ {cmd.rank}
            /\ out.issued = <<>> => out.state.self_refreshing = self_refreshing

\* A step changes the self-refresh state of at most one rank, only in a tick
\* with self-refresh enabled that took no command from the command queue, and
\* a rank that enters has been idle for sref_threshold cycles.
SrefStep ==
    LET entered == self_refreshing' \ self_refreshing
        left == self_refreshing \ self_refreshing'
    IN  /\ Cardinality(entered \cup left) <= 1
        /\ entered \cup left # {}
              => /\ enable_self_refresh
                 /\ clk' = clk + 1
                 /\ Len(cmd_queue') >= Len(cmd_queue)
        /\ \A r \in entered : rank_idle_cycles'[r] >= sref_threshold

C17_SelfRefresh == []SrefGuards /\ [][SrefStep]_vars

\* Rank 1 is in self-refresh, rank 0, which the walk visits first, is not and
\* has not been idle long enough; the read admitted was promoted meanwhile.
C17_Witness ==
    /\ enable_self_refresh
    /\ self_refreshing = {1}
    /\ rank_idle_cycles[1] >= sref_threshold
    /\ rank_idle_cycles[0] < sref_threshold
    /\ cmd_queue # <<>>

=============================================================================
